---- MODULE Spec2Model ----
(***************************************************************************)
(* Model of GLTFLODUtils.cpp: merging glTF documents as levels of detail.  *)
(*                                                                         *)
(* Representation.                                                         *)
(*  - An identifier string is the sequence of its decimal digits; the     *)
(*    empty string is << >>.  std::to_string and std::stoi convert digit   *)
(*    by digit.                                                            *)
(*  - An IndexedContainer is the sequence of its elements in order.        *)
(*  - A serialized JSON payload (extensions, extras) is the JSON tree it   *)
(*    denotes: an object is the ordered list of its members (rapidjson     *)
(*    keeps members in insertion order and allows duplicate names), and    *)
(*    the empty std::string is EmptyString.                                *)
(*  - A name is its base text plus the "_lod<N>" labels appended to it.    *)
(***************************************************************************)
EXTENDS Integers, Sequences, FiniteSets

VARIABLES pc, docs, gltfPrimary, lods, primary, primaryLods, thrown, merged,
          screenCoveragePercentages

vars == <<pc, docs, gltfPrimary, lods, primary, primaryLods, thrown, merged,
          screenCoveragePercentages>>

(* Longest docs vector the fold is run over. *)
MaxDocs == 3

EXTENSION_MSFT_LOD == "MSFT_lod"
MSFT_LOD_IDS_KEY == "ids"
EXTENSION_MSFT_TEXTURE_DDS == "MSFT_texture_dds"
EXTENSION_MSFT_PACKING_ORM == "MSFT_packing_occlusionRoughnessMetallic"
MSFT_SCREENCOVERAGE_KEY == "MSFT_screencoverage"

-----------------------------------------------------------------------------
(* Strings of digits *)

RECURSIVE to_string(_)
to_string(n) == IF n < 10 THEN <<n>> ELSE to_string(n \div 10) \o <<n % 10>>

RECURSIVE stoi(_)
stoi(s) == IF Len(s) = 1 THEN s[1]
           ELSE 10 * stoi(SubSeq(s, 1, Len(s) - 1)) + s[Len(s)]

MapSeq(s, F(_)) == [i \in 1..Len(s) |-> F(s[i])]

Max(a, b) == IF a >= b THEN a ELSE b

-----------------------------------------------------------------------------
(* JSON trees *)

EmptyString == [t |-> "empty", i |-> 0, m |-> << >>]
JInt(n) == [t |-> "int", i |-> n, m |-> << >>]
JArr(xs) == [t |-> "arr", i |-> 0, m |-> xs]
JObj(ms) == [t |-> "obj", i |-> 0, m |-> ms]
Member(n, v) == [name |-> n, value |-> v]

HasMember(json, n) == \E k \in 1..Len(json.m) : json.m[k].name = n

(* rapidjson FindMember: the first member of that name *)
FindMember(json, n) ==
  CHOOSE k \in 1..Len(json.m) :
    /\ json.m[k].name = n
    /\ \A j \in 1..(k - 1) : json.m[j].name # n

GetMember(json, n) == json.m[FindMember(json, n)].value

SetMember(json, n, v) ==
  [json EXCEPT !.m[FindMember(json, n)].value = v]

AddMember(json, n, v) == [json EXCEPT !.m = Append(@, Member(n, v))]

ToJsonArray(xs) == JArr(MapSeq(xs, JInt))

-----------------------------------------------------------------------------
(* std::unordered_map<std::string, std::string> extensions *)

NoExtensions == [x \in {} |-> EmptyString]

(* emplace leaves an existing key as it is *)
Emplace(map, k, v) ==
  IF k \in DOMAIN map THEN map
  ELSE [x \in (DOMAIN map) \cup {k} |-> IF x = k THEN v ELSE map[x]]

-----------------------------------------------------------------------------
(* IndexedContainer *)

Has(coll, id) == \E k \in 1..Len(coll) : coll[k].id = id

Position(coll, id) == CHOOSE k \in 1..Len(coll) : coll[k].id = id

Get(coll, id) == coll[Position(coll, id)]

GetIndex(coll, id) == Position(coll, id) - 1

Replace(coll, e) == [coll EXCEPT ![Position(coll, e.id)] = e]

-----------------------------------------------------------------------------
(* Index remapping *)

AddIndexOffset(id, offset) ==
  IF id = << >> THEN << >> ELSE to_string(stoi(id) + offset)

AddIndexOffsetPacked(json, textureId, offset) ==
  IF HasMember(json, textureId)
  THEN IF HasMember(GetMember(json, textureId), "index")
       THEN LET index == GetMember(GetMember(json, textureId), "index").i
            IN SetMember(json, textureId,
                 SetMember(GetMember(json, textureId), "index", JInt(index + offset)))
       ELSE json
  ELSE json

-----------------------------------------------------------------------------
(* MSFT_lod codec *)

ParseExtensionMSFTLod(node) ==
  IF EXTENSION_MSFT_LOD \in DOMAIN node.extensions
  THEN LET json == node.extensions[EXTENSION_MSFT_LOD]
       IN IF HasMember(json, MSFT_LOD_IDS_KEY)
          THEN MapSeq(GetMember(json, MSFT_LOD_IDS_KEY).m, LAMBDA ait : to_string(ait.i))
          ELSE << >>
  ELSE << >>

(* SerializeExtensionMSFTLod<Node>; every lodId is an id of gltfDocument.nodes *)
SerializeExtensionMSFTLod(lodIds, gltfDocument) ==
  IF lodIds = << >> THEN EmptyString
  ELSE LET lodIndices == MapSeq(lodIds, LAMBDA lodId : GetIndex(gltfDocument.nodes, lodId))
       IN JObj(<<Member(MSFT_LOD_IDS_KEY, ToJsonArray(lodIndices))>>)

ParseDocumentNodeLODs(doc) ==
  [id \in {doc.nodes[k].id : k \in 1..Len(doc.nodes)} |->
     ParseExtensionMSFTLod(Get(doc.nodes, id))]

-----------------------------------------------------------------------------
(* AddGLTFNodeLOD: the topology check *)

GarbageId == <<-1>>

NodeIds(doc) == {doc.nodes[k].id : k \in 1..Len(doc.nodes)}

(* std::equal over the two root-node id lists (of equal length) *)
StdEqual(a, b) == \A k \in 1..Len(a) : a[k] = b[k]

SceneMatch_CountOnly(primaryScene, lodScene) ==
  Len(primaryScene.nodes) = Len(lodScene.nodes)

SceneMatch(primaryScene, lodScene) ==
  /\ Len(primaryScene.nodes) = Len(lodScene.nodes)
  /\ \/ Len(lodScene.nodes) = 1
     \/ StdEqual(primaryScene.nodes, lodScene.nodes)

(* Scene positions at which the loop reads nodes[0] of an empty root list.   *)
(* What that read yields is not defined; ub[s] is the value it produces.    *)
EmptyRootReads(primary_, lod) ==
  IF Len(primary_.scenes) # Len(lod.scenes) THEN {}
  ELSE {s \in 1..Len(primary_.scenes) :
          /\ primary_.scenes[s].nodes = << >>
          /\ lod.scenes[s].nodes = << >>}

(* The loop of lines 124-141 from sceneIdx on.  Result: whether the scenes  *)
(* match, MaxLODLevel, and the exception thrown by Get / at, if any.        *)
RECURSIVE SceneLoop(_, _, _, _, _, _, _)
SceneLoop(gltfLod, primaryLods_, lod, ub, sceneIdx, sceneNodeMatch, MaxLODLevel) ==
  IF sceneIdx > Len(gltfLod.scenes)
  THEN [sceneNodeMatch |-> sceneNodeMatch, MaxLODLevel |-> MaxLODLevel, exc |-> "none"]
  ELSE IF SceneMatch(gltfLod.scenes[sceneIdx], lod.scenes[sceneIdx])
       THEN LET roots == gltfLod.scenes[sceneIdx].nodes
                rootId == IF roots = << >> THEN ub[sceneIdx] ELSE roots[1]
            IN IF ~Has(gltfLod.nodes, rootId)
               THEN [sceneNodeMatch |-> TRUE, MaxLODLevel |-> MaxLODLevel,
                     exc |-> "GLTFException"]
               ELSE IF rootId \notin DOMAIN primaryLods_
               THEN [sceneNodeMatch |-> TRUE, MaxLODLevel |-> MaxLODLevel,
                     exc |-> "out_of_range"]
               ELSE SceneLoop(gltfLod, primaryLods_, lod, ub, sceneIdx + 1, TRUE,
                              Max(MaxLODLevel, Len(primaryLods_[rootId])))
       ELSE [sceneNodeMatch |-> FALSE, MaxLODLevel |-> MaxLODLevel, exc |-> "none"]

TopologyCheck(primary_, primaryLods_, lod, ub) ==
  LET r == IF Len(primary_.scenes) = Len(lod.scenes)
           THEN SceneLoop(primary_, primaryLods_, lod, ub, 1, FALSE, 0)
           ELSE [sceneNodeMatch |-> FALSE, MaxLODLevel |-> 0, exc |-> "none"]
  IN [r EXCEPT !.MaxLODLevel = @ + 1,
               !.exc = IF @ # "none" THEN @
                       ELSE IF ~r.sceneNodeMatch \/ primary_.scenes = << >>
                            THEN "runtime_error" ELSE "none"]

-----------------------------------------------------------------------------
(* AddGLTFNodeLOD: appending the LOD document's entities (lines 156-334).    *)
(* gltfLod is the clone of the primary; every offset is the size of the     *)
(* clone's collection before anything is appended to it.                     *)

Labelled(name, MaxLODLevel) == [name EXCEPT !.lods = Append(@, MaxLODLevel)]

MergeBuffers(gltfLod, lod) ==
  LET buffersOffset == Len(gltfLod.buffers)
  IN gltfLod.buffers \o
     MapSeq(lod.buffers, LAMBDA buffer :
       [buffer EXCEPT !.id = AddIndexOffset(@, buffersOffset)])

MergeSamplers(gltfLod, lod) ==
  LET samplersOffset == Len(gltfLod.samplers)
  IN gltfLod.samplers \o
     MapSeq(lod.samplers, LAMBDA sampler :
       [sampler EXCEPT !.id = AddIndexOffset(@, samplersOffset)])

MergeExtensionsUsed(gltfLod, lod) ==
  gltfLod.extensionsUsed \cup lod.extensionsUsed \cup {EXTENSION_MSFT_LOD}

MergeBufferViews(gltfLod, lod) ==
  LET buffersOffset == Len(gltfLod.buffers)
      bufferViewsOffset == Len(gltfLod.bufferViews)
  IN gltfLod.bufferViews \o
     MapSeq(lod.bufferViews, LAMBDA bufferView :
       [bufferView EXCEPT !.id = AddIndexOffset(@, bufferViewsOffset),
                          !.bufferId = AddIndexOffset(@, buffersOffset)])

MergeAccessors(gltfLod, lod) ==
  LET accessorOffset == Len(gltfLod.accessors)
      bufferViewsOffset == Len(gltfLod.bufferViews)
  IN gltfLod.accessors \o
     MapSeq(lod.accessors, LAMBDA accessor :
       [accessor EXCEPT !.id = AddIndexOffset(@, accessorOffset),
                        !.bufferViewId = AddIndexOffset(@, bufferViewsOffset)])

MergeImages_Dropped(gltfLod, lod) == gltfLod.images

MergeImages(gltfLod, lod) ==
  LET imageOffset == Len(gltfLod.images)
      bufferViewsOffset == Len(gltfLod.bufferViews)
  IN gltfLod.images \o
     MapSeq(lod.images, LAMBDA image :
       [image EXCEPT !.id = AddIndexOffset(@, imageOffset),
                     !.bufferViewId = AddIndexOffset(@, bufferViewsOffset)])

(* MSFT_texture_dds: "source" is an index into the images *)
PatchDDS(extensions, imageOffset) ==
  IF /\ EXTENSION_MSFT_TEXTURE_DDS \in DOMAIN extensions
     /\ extensions[EXTENSION_MSFT_TEXTURE_DDS] # EmptyString
  THEN LET ddsJson == extensions[EXTENSION_MSFT_TEXTURE_DDS]
       IN [extensions EXCEPT ![EXTENSION_MSFT_TEXTURE_DDS] =
             IF HasMember(ddsJson, "source")
             THEN SetMember(ddsJson, "source",
                            JInt(GetMember(ddsJson, "source").i + imageOffset))
             ELSE ddsJson]
  ELSE extensions

MergeTextures(gltfLod, lod) ==
  LET texturesOffset == Len(gltfLod.textures)
      samplersOffset == Len(gltfLod.samplers)
      imageOffset == Len(gltfLod.images)
  IN gltfLod.textures \o
     MapSeq(lod.textures, LAMBDA texture :
       [texture EXCEPT !.id = AddIndexOffset(@, texturesOffset),
                       !.samplerId = AddIndexOffset(@, samplersOffset),
                       !.imageId = AddIndexOffset(@, imageOffset),
                       !.extensions = PatchDDS(@, imageOffset)])

(* MSFT_packing_occlusionRoughnessMetallic: three optional texture indices *)
PatchORM(extensions, texturesOffset) ==
  IF /\ EXTENSION_MSFT_PACKING_ORM \in DOMAIN extensions
     /\ extensions[EXTENSION_MSFT_PACKING_ORM] # EmptyString
  THEN [extensions EXCEPT ![EXTENSION_MSFT_PACKING_ORM] =
          AddIndexOffsetPacked(
            AddIndexOffsetPacked(
              AddIndexOffsetPacked(@, "occlusionRoughnessMetallicTexture", texturesOffset),
              "roughnessMetallicOcclusionTexture", texturesOffset),
            "normalTexture", texturesOffset)]
  ELSE extensions

MergeMaterials(gltfLod, lod, MaxLODLevel) ==
  LET materialOffset == Len(gltfLod.materials)
      texturesOffset == Len(gltfLod.textures)
  IN gltfLod.materials \o
     MapSeq(lod.materials, LAMBDA material :
       [material EXCEPT
          !.name = Labelled(@, MaxLODLevel),
          !.id = AddIndexOffset(@, materialOffset),
          !.normalTextureId = AddIndexOffset(@, texturesOffset),
          !.occlusionTextureId = AddIndexOffset(@, texturesOffset),
          !.emissiveTextureId = AddIndexOffset(@, texturesOffset),
          !.baseColorTextureId = AddIndexOffset(@, texturesOffset),
          !.metallicRoughnessTextureId = AddIndexOffset(@, texturesOffset),
          !.diffuseTextureId = AddIndexOffset(@, texturesOffset),
          !.specularGlossinessTextureId = AddIndexOffset(@, texturesOffset),
          !.extensions = PatchORM(@, texturesOffset)])

MergeMeshes(gltfLod, lod, MaxLODLevel) ==
  LET meshOffset == Len(gltfLod.meshes)
      accessorOffset == Len(gltfLod.accessors)
      materialOffset == Len(gltfLod.materials)
  IN gltfLod.meshes \o
     MapSeq(lod.meshes, LAMBDA mesh :
       [mesh EXCEPT
          !.name = Labelled(@, MaxLODLevel),
          !.id = AddIndexOffset(@, meshOffset),
          !.primitives = MapSeq(@, LAMBDA Itr :
             [Itr EXCEPT
                !.positionsAccessorId = AddIndexOffset(@, accessorOffset),
                !.normalsAccessorId = AddIndexOffset(@, accessorOffset),
                !.indicesAccessorId = AddIndexOffset(@, accessorOffset),
                !.uv0AccessorId = AddIndexOffset(@, accessorOffset),
                !.uv1AccessorId = AddIndexOffset(@, accessorOffset),
                !.color0AccessorId = AddIndexOffset(@, accessorOffset),
                !.materialId = AddIndexOffset(@, materialOffset)])])

MergeNodes_MeshByNodeOffset(gltfLod, lod, MaxLODLevel) ==
  LET nodeOffset == Len(gltfLod.nodes)
  IN gltfLod.nodes \o
     MapSeq(lod.nodes, LAMBDA node :
       [node EXCEPT
          !.name = Labelled(@, MaxLODLevel),
          !.id = AddIndexOffset(@, nodeOffset),
          !.meshId = AddIndexOffset(@, nodeOffset),
          !.children = MapSeq(@, LAMBDA Itr : AddIndexOffset(Itr, nodeOffset))])

MergeNodes(gltfLod, lod, MaxLODLevel) ==
  LET nodeOffset == Len(gltfLod.nodes)
      meshOffset == Len(gltfLod.meshes)
  IN gltfLod.nodes \o
     MapSeq(lod.nodes, LAMBDA node :
       [node EXCEPT
          !.name = Labelled(@, MaxLODLevel),
          !.id = AddIndexOffset(@, nodeOffset),
          !.meshId = AddIndexOffset(@, meshOffset),
          !.children = MapSeq(@, LAMBDA Itr : AddIndexOffset(Itr, nodeOffset))])

(* The clone after all appends; the scenes of the clone are not touched. *)
MergeEntities(gltfLod, lod, MaxLODLevel) ==
  [gltfLod EXCEPT
     !.buffers = MergeBuffers(gltfLod, lod),
     !.samplers = MergeSamplers(gltfLod, lod),
     !.extensionsUsed = MergeExtensionsUsed(gltfLod, lod),
     !.bufferViews = MergeBufferViews(gltfLod, lod),
     !.accessors = MergeAccessors(gltfLod, lod),
     !.images = MergeImages(gltfLod, lod),
     !.textures = MergeTextures(gltfLod, lod),
     !.materials = MergeMaterials(gltfLod, lod, MaxLODLevel),
     !.meshes = MergeMeshes(gltfLod, lod, MaxLODLevel),
     !.nodes = MergeNodes(gltfLod, lod, MaxLODLevel)]

-----------------------------------------------------------------------------
(* AddGLTFNodeLOD: the registry update (lines 338-348) *)

(* The (scene, root) positions in the order the two loops visit them *)
RECURSIVE RootPositions(_, _, _)
RootPositions(scenes, sceneIdx, rootNodeIdx) ==
  IF sceneIdx > Len(scenes) THEN << >>
  ELSE IF rootNodeIdx > Len(scenes[sceneIdx].nodes)
       THEN RootPositions(scenes, sceneIdx + 1, 1)
       ELSE <<[sceneIdx |-> sceneIdx, rootNodeIdx |-> rootNodeIdx]>> \o
            RootPositions(scenes, sceneIdx, rootNodeIdx + 1)

LodRootIdx_NoOffset(lodScenes, at, nodeOffset) ==
  stoi(lodScenes[at.sceneIdx].nodes[at.rootNodeIdx])

LodRootIdx(lodScenes, at, nodeOffset) ==
  stoi(lodScenes[at.sceneIdx].nodes[at.rootNodeIdx]) + nodeOffset

(* One emplace_back per visited position, in order *)
RECURSIVE UpdateLods(_, _, _, _, _, _)
UpdateLods(primaryLods_, primaryScenes, lodScenes, nodeOffset, positions, k) ==
  IF k > Len(positions) THEN primaryLods_
  ELSE LET at == positions[k]
           idx == primaryScenes[at.sceneIdx].nodes[at.rootNodeIdx]
           lodRootIdx == LodRootIdx(lodScenes, at, nodeOffset)
       IN UpdateLods([primaryLods_ EXCEPT ![idx] = Append(@, to_string(lodRootIdx))],
                     primaryScenes, lodScenes, nodeOffset, positions, k + 1)

(* The call as its caller sees it: the exception thrown ("none" when it     *)
(* returns), the caller's document afterwards and the registry afterwards.   *)
AddGLTFNodeLOD_MutateThenCheck(primary_, primaryLods_, lod, ub) ==
  LET check == TopologyCheck(primary_, primaryLods_, lod, ub)
      gltfLod == MergeEntities(primary_, lod, check.MaxLODLevel)
  IN IF check.exc # "none"
     THEN [exc |-> check.exc, doc |-> gltfLod, lods |-> primaryLods_]
     ELSE [exc |-> "none", doc |-> gltfLod,
           lods |-> UpdateLods(primaryLods_, primary_.scenes, lod.scenes,
                               Len(primary_.nodes),
                               RootPositions(primary_.scenes, 1, 1), 1)]

(* The registry is updated for the primary's roots before the check *)
AddGLTFNodeLOD_RegisterThenCheck(primary_, primaryLods_, lod, ub) ==
  LET check == TopologyCheck(primary_, primaryLods_, lod, ub)
      registered == [id \in DOMAIN primaryLods_ |->
                       IF \E s \in 1..Len(primary_.scenes) :
                            \E r \in 1..Len(primary_.scenes[s].nodes) :
                              primary_.scenes[s].nodes[r] = id
                       THEN Append(primaryLods_[id], to_string(Len(primary_.nodes)))
                       ELSE primaryLods_[id]]
  IN IF check.exc # "none"
     THEN [exc |-> check.exc, doc |-> primary_, lods |-> registered]
     ELSE [exc |-> "none",
           doc |-> MergeEntities(primary_, lod, check.MaxLODLevel),
           lods |-> UpdateLods(primaryLods_, primary_.scenes, lod.scenes,
                               Len(primary_.nodes),
                               RootPositions(primary_.scenes, 1, 1), 1)]

AddGLTFNodeLOD(primary_, primaryLods_, lod, ub) ==
  LET check == TopologyCheck(primary_, primaryLods_, lod, ub)
  IN IF check.exc # "none"
     THEN [exc |-> check.exc, doc |-> primary_, lods |-> primaryLods_]
     ELSE [exc |-> "none",
           doc |-> MergeEntities(primary_, lod, check.MaxLODLevel),
           lods |-> UpdateLods(primaryLods_, primary_.scenes, lod.scenes,
                               Len(primary_.nodes),
                               RootPositions(primary_.scenes, 1, 1), 1)]

-----------------------------------------------------------------------------
(* MergeDocumentsAsLODs *)

(* Lines 381-396: write each non-empty chain onto its node *)
FlushLods(gltfPrimary_, lods_) ==
  [gltfPrimary_ EXCEPT !.nodes = MapSeq(@, LAMBDA node :
     IF node.id \in DOMAIN lods_ /\ lods_[node.id] # << >>
     THEN LET lodExtensionValue == SerializeExtensionMSFTLod(lods_[node.id], gltfPrimary_)
          IN IF lodExtensionValue # EmptyString
             THEN [node EXCEPT !.extensions =
                     Emplace(@, EXTENSION_MSFT_LOD, lodExtensionValue)]
             ELSE node
     ELSE node)]

(* nodes.GetIndex throws when a chain names an id that is no node *)
FlushThrows(gltfPrimary_, lods_) ==
  \E id \in DOMAIN lods_ : \E k \in 1..Len(lods_[id]) :
    ~Has(gltfPrimary_.nodes, lods_[id][k])

(* Lines 414-433 for one root node *)
AddScreenCoverage(nodes, rootNodeIndex, coverage) ==
  LET primaryRootNode == Get(nodes, rootNodeIndex)
      extrasJson == IF primaryRootNode.extras # EmptyString
                    THEN primaryRootNode.extras ELSE JObj(<< >>)
  IN Replace(nodes,
       [primaryRootNode EXCEPT !.extras =
          AddMember(extrasJson, MSFT_SCREENCOVERAGE_KEY, ToJsonArray(coverage))])

(* Lines 410-435: every root of every scene, in order *)
RECURSIVE CoverageLoop(_, _, _, _, _)
CoverageLoop(nodes, scenes, coverage, positions, k) ==
  IF k > Len(positions) THEN nodes
  ELSE CoverageLoop(
         AddScreenCoverage(nodes,
           scenes[positions[k].sceneIdx].nodes[positions[k].rootNodeIdx], coverage),
         scenes, coverage, positions, k + 1)

WithScreenCoverage(merged_, coverage) ==
  IF Len(coverage) = 0 THEN merged_
  ELSE [merged_ EXCEPT !.nodes =
          CoverageLoop(@, merged_.scenes, coverage,
                       RootPositions(merged_.scenes, 1, 1), 1)]

(* at() throws for a node the registry does not know: reported as -1 *)
NumberOfNodeLODLevels(doc, lods_) ==
  IF \E k \in 1..Len(doc.nodes) : doc.nodes[k].id \notin DOMAIN lods_ THEN -1
  ELSE LET sizes == {Len(lods_[doc.nodes[k].id]) : k \in 1..Len(doc.nodes)} \cup {0}
       IN CHOOSE maxLODLevel \in sizes : \A x \in sizes : x <= maxLODLevel

-----------------------------------------------------------------------------
(* Input documents: well formed, with positional identifiers *)

NoId == << >>
Name(base) == [base |-> base, lods |-> << >>]

Buffer(i) == [id |-> to_string(i)]
Sampler(i) == [id |-> to_string(i)]
BufferView(i, bufferId) == [id |-> to_string(i), bufferId |-> bufferId]
Accessor(i, bufferViewId) == [id |-> to_string(i), bufferViewId |-> bufferViewId]
Image(i, bufferViewId) == [id |-> to_string(i), bufferViewId |-> bufferViewId]
Texture(i, samplerId, imageId, extensions) ==
  [id |-> to_string(i), samplerId |-> samplerId, imageId |-> imageId,
   extensions |-> extensions]
Material(i, tex, extensions) ==
  [id |-> to_string(i), name |-> Name("material"),
   normalTextureId |-> tex[1], occlusionTextureId |-> tex[2],
   emissiveTextureId |-> tex[3], baseColorTextureId |-> tex[4],
   metallicRoughnessTextureId |-> tex[5], diffuseTextureId |-> tex[6],
   specularGlossinessTextureId |-> tex[7], extensions |-> extensions]
Primitive(acc, materialId) ==
  [positionsAccessorId |-> acc[1], normalsAccessorId |-> acc[2],
   indicesAccessorId |-> acc[3], uv0AccessorId |-> acc[4],
   uv1AccessorId |-> acc[5], color0AccessorId |-> acc[6],
   materialId |-> materialId]
Mesh(i, primitives) ==
  [id |-> to_string(i), name |-> Name("mesh"), primitives |-> primitives]
Node(i, meshId, children, extensions, extras) ==
  [id |-> to_string(i), name |-> Name("node"), meshId |-> meshId,
   children |-> children, extensions |-> extensions, extras |-> extras]
Scene(i, nodes) == [id |-> to_string(i), nodes |-> nodes]

Ext(name, payload) == [x \in {name} |-> payload]
TextureIndex(i) == JObj(<<Member("index", JInt(i))>>)

ContentEmpty ==
  [buffers |-> << >>, samplers |-> << >>, bufferViews |-> << >>,
   accessors |-> << >>, images |-> << >>, textures |-> << >>,
   materials |-> << >>, meshes |-> << >>, extensionsUsed |-> {}]

ContentSmall ==
  [buffers |-> <<Buffer(0)>>,
   samplers |-> <<Sampler(0)>>,
   bufferViews |-> <<BufferView(0, to_string(0))>>,
   accessors |-> <<Accessor(0, to_string(0))>>,
   images |-> <<Image(0, to_string(0))>>,
   textures |-> <<Texture(0, to_string(0), to_string(0),
                    Ext(EXTENSION_MSFT_TEXTURE_DDS,
                        JObj(<<Member("source", JInt(0))>>)))>>,
   materials |-> <<Material(0,
                    <<to_string(0), NoId, NoId, to_string(0), NoId, NoId, NoId>>,
                    Ext(EXTENSION_MSFT_PACKING_ORM,
                        JObj(<<Member("occlusionRoughnessMetallicTexture",
                                      TextureIndex(0))>>)))>>,
   meshes |-> <<Mesh(0, <<Primitive(
                    <<to_string(0), NoId, to_string(0), NoId, NoId, NoId>>,
                    to_string(0))>>)>>,
   extensionsUsed |-> {EXTENSION_MSFT_TEXTURE_DDS, EXTENSION_MSFT_PACKING_ORM}]

ContentRich ==
  [buffers |-> <<Buffer(0), Buffer(1)>>,
   samplers |-> <<Sampler(0)>>,
   bufferViews |-> <<BufferView(0, to_string(1)), BufferView(1, to_string(0)),
                     BufferView(2, to_string(1))>>,
   accessors |-> <<Accessor(0, to_string(2)), Accessor(1, NoId)>>,
   images |-> <<Image(0, to_string(1)), Image(1, NoId)>>,
   textures |-> <<Texture(0, to_string(0), to_string(1),
                    Ext(EXTENSION_MSFT_TEXTURE_DDS,
                        JObj(<<Member("source", JInt(1))>>))),
                  Texture(1, NoId, to_string(0), NoExtensions),
                  Texture(2, to_string(0), NoId,
                    Ext(EXTENSION_MSFT_TEXTURE_DDS, EmptyString))>>,
   materials |-> <<Material(0,
                    <<to_string(2), to_string(1), to_string(0), to_string(2),
                      to_string(1), to_string(0), to_string(2)>>,
                    Ext(EXTENSION_MSFT_PACKING_ORM,
                        JObj(<<Member("roughnessMetallicOcclusionTexture",
                                      TextureIndex(2)),
                               Member("normalTexture", TextureIndex(1)),
                               Member("occlusionRoughnessMetallicTexture",
                                      JObj(<<Member("texCoord", JInt(0))>>))>>))),
                   Material(1, <<NoId, NoId, NoId, NoId, NoId, NoId, NoId>>,
                    NoExtensions)>>,
   meshes |-> <<Mesh(0, <<Primitive(
                    <<to_string(1), to_string(0), to_string(1), to_string(0),
                      NoId, to_string(1)>>, to_string(1)),
                          Primitive(
                    <<to_string(0), NoId, NoId, NoId, to_string(0), NoId>>,
                    NoId)>>)>>,
   extensionsUsed |-> {EXTENSION_MSFT_TEXTURE_DDS, EXTENSION_MSFT_PACKING_ORM}]

Contents == [empty |-> ContentEmpty, small |-> ContentSmall, rich |-> ContentRich]

Plain(i, meshId, children) == Node(i, meshId, children, NoExtensions, EmptyString)

(* Nodes and scenes of a document whose nodes use mesh meshId *)
Graph(kind, meshId) ==
  CASE kind = "none" ->
         [nodes |-> << >>, scenes |-> << >>, used |-> {}]
    [] kind = "one" ->
         [nodes |-> <<Plain(0, meshId, << >>)>>,
          scenes |-> <<Scene(0, <<to_string(0)>>)>>, used |-> {}]
    [] kind = "child" ->
         [nodes |-> <<Plain(0, NoId, <<to_string(1)>>),
                      Node(1, meshId, << >>, NoExtensions,
                           JObj(<<Member("author", JInt(7))>>))>>,
          scenes |-> <<Scene(0, <<to_string(0)>>)>>, used |-> {}]
    [] kind = "rootAt1" ->
         [nodes |-> <<Plain(0, meshId, << >>), Plain(1, NoId, <<to_string(0)>>)>>,
          scenes |-> <<Scene(0, <<to_string(1)>>)>>, used |-> {}]
    [] kind = "two" ->
         [nodes |-> <<Plain(0, meshId, << >>), Plain(1, NoId, << >>)>>,
          scenes |-> <<Scene(0, <<to_string(0), to_string(1)>>)>>, used |-> {}]
    [] kind = "twoSwapped" ->
         [nodes |-> <<Plain(0, meshId, << >>), Plain(1, NoId, << >>)>>,
          scenes |-> <<Scene(0, <<to_string(1), to_string(0)>>)>>, used |-> {}]
    [] kind = "shared" ->
         [nodes |-> <<Plain(0, meshId, << >>)>>,
          scenes |-> <<Scene(0, <<to_string(0)>>), Scene(1, <<to_string(0)>>)>>,
          used |-> {}]
    [] kind = "twoScenes" ->
         [nodes |-> <<Plain(0, meshId, << >>), Plain(1, meshId, << >>)>>,
          scenes |-> <<Scene(0, <<to_string(0)>>), Scene(1, <<to_string(1)>>)>>,
          used |-> {}]
    [] kind = "twoScenesSwapped" ->
         [nodes |-> <<Plain(0, meshId, << >>), Plain(1, meshId, << >>)>>,
          scenes |-> <<Scene(0, <<to_string(1)>>), Scene(1, <<to_string(0)>>)>>,
          used |-> {}]
    [] kind = "emptyScene" ->
         [nodes |-> <<Plain(0, meshId, << >>)>>,
          scenes |-> <<Scene(0, << >>)>>, used |-> {}]
    [] kind = "emptyFirst" ->
         [nodes |-> <<Plain(0, meshId, << >>)>>,
          scenes |-> <<Scene(0, << >>), Scene(1, <<to_string(0)>>)>>, used |-> {}]
    [] kind = "emptyFirstTwo" ->
         [nodes |-> <<Plain(0, meshId, << >>), Plain(1, NoId, << >>)>>,
          scenes |-> <<Scene(0, << >>), Scene(1, <<to_string(0), to_string(1)>>)>>,
          used |-> {}]
    [] kind = "lodded" ->
         [nodes |-> <<Node(0, meshId, << >>,
                           Ext(EXTENSION_MSFT_LOD,
                               JObj(<<Member(MSFT_LOD_IDS_KEY, ToJsonArray(<<1>>))>>)),
                           EmptyString),
                      [Plain(1, meshId, << >>) EXCEPT !.name.lods = <<1>>]>>,
          scenes |-> <<Scene(0, <<to_string(0)>>)>>,
          used |-> {EXTENSION_MSFT_LOD}]
    [] kind = "extras" ->
         [nodes |-> <<Node(0, meshId, << >>, NoExtensions,
                           JObj(<<Member("author", JInt(7))>>))>>,
          scenes |-> <<Scene(0, <<to_string(0)>>)>>, used |-> {}]
    [] kind = "covered" ->
         [nodes |-> <<Node(0, meshId, << >>, NoExtensions,
                           JObj(<<Member("author", JInt(7)),
                                  Member(MSFT_SCREENCOVERAGE_KEY, ToJsonArray(<<100>>))>>))>>,
          scenes |-> <<Scene(0, <<to_string(0)>>)>>, used |-> {}]

Document(content, kind) ==
  LET c == Contents[content]
      g == Graph(kind, IF c.meshes = << >> THEN NoId ELSE to_string(Len(c.meshes) - 1))
  IN [buffers |-> c.buffers, samplers |-> c.samplers, bufferViews |-> c.bufferViews,
      accessors |-> c.accessors, images |-> c.images, textures |-> c.textures,
      materials |-> c.materials, meshes |-> c.meshes,
      nodes |-> g.nodes, scenes |-> g.scenes,
      extensionsUsed |-> c.extensionsUsed \cup g.used]

EmptyDocument == Document("empty", "none")

PrimaryDocs ==
  {Document(c, k) : c \in {"empty", "small", "rich"},
                    k \in {"one", "child", "two", "shared", "twoScenes"}}
  \cup {Document("small", k) :
          k \in {"none", "emptyScene", "emptyFirst", "lodded", "extras", "covered"}}

LodDocs ==
  {EmptyDocument, Document("empty", "one")}
  \cup {Document("small", k) :
          k \in {"one", "child", "twoSwapped", "shared", "emptyScene", "emptyFirst",
                 "emptyFirstTwo"}}
  \cup {Document("rich", k) : k \in {"one", "rootAt1", "two", "twoScenesSwapped"}}

Coverages == {<< >>, <<50>>, <<100, 50, 10>>}

-----------------------------------------------------------------------------
(* The state machine: one call of MergeDocumentsAsLODs(docs, coverage) *)

NoLods == [id \in {} |-> << >>]

Init ==
  /\ pc = "call"
  /\ docs = << >>
  /\ gltfPrimary = EmptyDocument
  /\ lods = NoLods
  /\ primary = EmptyDocument
  /\ primaryLods = NoLods
  /\ thrown = "none"
  /\ merged = EmptyDocument
  /\ screenCoveragePercentages = << >>

(* docs.empty(): invalid_argument *)
EmptyInput ==
  /\ pc = "call"
  /\ pc' = "failed"
  /\ thrown' = "invalid_argument"
  /\ UNCHANGED <<docs, gltfPrimary, lods, primary, primaryLods, merged,
                 screenCoveragePercentages>>

(* gltfPrimary(docs[0]); lods = ParseDocumentNodeLODs(gltfPrimary) *)
Begin ==
  /\ pc = "call"
  /\ \E d \in PrimaryDocs :
       /\ docs' = <<d>>
       /\ gltfPrimary' = d
       /\ lods' = ParseDocumentNodeLODs(d)
  /\ pc' = "fold"
  /\ UNCHANGED <<primary, primaryLods, thrown, merged, screenCoveragePercentages>>

(* One iteration of the fold: gltfPrimary = AddGLTFNodeLOD(gltfPrimary, lods, docs[i]) *)
FoldStep ==
  /\ pc = "fold"
  /\ Len(docs) < MaxDocs
  /\ \E lod \in LodDocs :
       \E ub \in [EmptyRootReads(gltfPrimary, lod) -> NodeIds(gltfPrimary) \cup {GarbageId}] :
         LET r == AddGLTFNodeLOD(gltfPrimary, lods, lod, ub)
         IN /\ docs' = Append(docs, lod)
            /\ primary' = gltfPrimary
            /\ primaryLods' = lods
            /\ thrown' = r.exc
            /\ gltfPrimary' = r.doc
            /\ lods' = r.lods
            /\ pc' = IF r.exc = "none" THEN "fold" ELSE "failed"
  /\ UNCHANGED <<merged, screenCoveragePercentages>>

(* The fold is over: flush the registry into the nodes and return *)
Finalize ==
  /\ pc = "fold"
  /\ IF FlushThrows(gltfPrimary, lods)
     THEN /\ pc' = "failed"
          /\ thrown' = "GLTFException"
          /\ UNCHANGED gltfPrimary
     ELSE /\ pc' = "flushed"
          /\ gltfPrimary' = FlushLods(gltfPrimary, lods)
          /\ UNCHANGED thrown
  /\ UNCHANGED <<docs, lods, primary, primaryLods, merged, screenCoveragePercentages>>

(* The overload with screenCoveragePercentages, after the merge returned *)
ScreenCoverage ==
  /\ pc = "flushed"
  /\ \E coverage \in Coverages :
       /\ screenCoveragePercentages' = coverage
       /\ merged' = WithScreenCoverage(gltfPrimary, coverage)
  /\ pc' = "done"
  /\ UNCHANGED <<docs, gltfPrimary, lods, primary, primaryLods, thrown>>

Next == EmptyInput \/ Begin \/ FoldStep \/ Finalize \/ ScreenCoverage

Spec == Init /\ [][Next]_vars

-----------------------------------------------------------------------------
(* What the properties below talk about *)

Collections ==
  {"buffers", "samplers", "bufferViews", "accessors", "images", "textures",
   "materials", "meshes", "nodes", "scenes"}

(* docs[i] of the last fold iteration *)
lod_ == docs[Len(docs)]

(* The last fold iteration has just ended (returned or thrown) *)
JustStepped == Len(docs) >= 2 /\ pc \in {"fold", "failed"}

Succeeded == JustStepped /\ thrown = "none"

IsRoot(doc, id) ==
  \E s \in 1..Len(doc.scenes) : \E r \in 1..Len(doc.scenes[s].nodes) :
    doc.scenes[s].nodes[r] = id

-----------------------------------------------------------------------------
(* C1 (as stated): after one successful merge step every collection of the  *)
(* merged document, the scenes included, has |primary.C| + |candidate.C|    *)
(* entities.                                                                 *)
C1_EveryCollectionAdds ==
  Succeeded =>
    \A c \in Collections : Len(gltfPrimary[c]) = Len(primary[c]) + Len(lod_[c])

(* C1 (amended): after one successful merge step every collection other     *)
(* than the scenes has |primary.C| + |candidate.C| entities, and the merged *)
(* document has exactly the primary's scenes.                                *)
C1_CollectionsAddScenesKept ==
  Succeeded =>
    /\ \A c \in Collections \ {"scenes"} :
         Len(gltfPrimary[c]) = Len(primary[c]) + Len(lod_[c])
    /\ gltfPrimary.scenes = primary.scenes

C1_Witness ==
  /\ Succeeded
  /\ Len(docs) = 3
  /\ \A c \in Collections : Len(lod_[c]) >= 1 /\ Len(primary[c]) >= 1
  /\ Len(lod_.images) = 2

-----------------------------------------------------------------------------
(* Referential validity *)

Resolves(id, coll) == id = << >> \/ Has(coll, id)

(* An index inside an extension payload names an element of coll *)
IndexResolves(index, coll) == index >= 0 /\ Has(coll, to_string(index))

PackedFields ==
  {"occlusionRoughnessMetallicTexture", "roughnessMetallicOcclusionTexture",
   "normalTexture"}

MaterialTextureFields ==
  {"normalTextureId", "occlusionTextureId", "emissiveTextureId",
   "baseColorTextureId", "metallicRoughnessTextureId", "diffuseTextureId",
   "specularGlossinessTextureId"}

PrimitiveAccessorFields ==
  {"positionsAccessorId", "normalsAccessorId", "indicesAccessorId",
   "uv0AccessorId", "uv1AccessorId", "color0AccessorId"}

ValidRefs(doc) ==
  /\ \A k \in 1..Len(doc.bufferViews) : Resolves(doc.bufferViews[k].bufferId, doc.buffers)
  /\ \A k \in 1..Len(doc.accessors) : Resolves(doc.accessors[k].bufferViewId, doc.bufferViews)
  /\ \A k \in 1..Len(doc.images) : Resolves(doc.images[k].bufferViewId, doc.bufferViews)
  /\ \A k \in 1..Len(doc.textures) :
       LET texture == doc.textures[k]
       IN /\ Resolves(texture.samplerId, doc.samplers)
          /\ Resolves(texture.imageId, doc.images)
          /\ (/\ EXTENSION_MSFT_TEXTURE_DDS \in DOMAIN texture.extensions
              /\ HasMember(texture.extensions[EXTENSION_MSFT_TEXTURE_DDS], "source"))
             => IndexResolves(
                  GetMember(texture.extensions[EXTENSION_MSFT_TEXTURE_DDS], "source").i,
                  doc.images)
  /\ \A k \in 1..Len(doc.materials) :
       LET material == doc.materials[k]
       IN /\ \A f \in MaterialTextureFields : Resolves(material[f], doc.textures)
          /\ EXTENSION_MSFT_PACKING_ORM \in DOMAIN material.extensions
             => \A f \in PackedFields :
                  LET orm == material.extensions[EXTENSION_MSFT_PACKING_ORM]
                  IN (HasMember(orm, f) /\ HasMember(GetMember(orm, f), "index"))
                     => IndexResolves(GetMember(GetMember(orm, f), "index").i,
                                      doc.textures)
  /\ \A k \in 1..Len(doc.meshes) : \A j \in 1..Len(doc.meshes[k].primitives) :
       LET primitive == doc.meshes[k].primitives[j]
       IN /\ \A f \in PrimitiveAccessorFields : Resolves(primitive[f], doc.accessors)
          /\ Resolves(primitive.materialId, doc.materials)
  /\ \A k \in 1..Len(doc.nodes) :
       /\ Resolves(doc.nodes[k].meshId, doc.meshes)
       /\ \A j \in 1..Len(doc.nodes[k].children) :
            doc.nodes[k].children[j] # << >> /\ Has(doc.nodes, doc.nodes[k].children[j])
  /\ \A k \in 1..Len(doc.scenes) : \A j \in 1..Len(doc.scenes[k].nodes) :
       doc.scenes[k].nodes[j] # << >> /\ Has(doc.nodes, doc.scenes[k].nodes[j])

(* The foreign-key fields of the entities of a collection *)
ForeignKeys(c) ==
  CASE c = "bufferViews" -> {"bufferId"}
    [] c = "accessors" -> {"bufferViewId"}
    [] c = "images" -> {"bufferViewId"}
    [] c = "textures" -> {"samplerId", "imageId"}
    [] c = "materials" -> MaterialTextureFields
    [] c = "nodes" -> {"meshId"}
    [] OTHER -> {}

(* The copy of the candidate's k-th entity of collection c in the merged doc *)
Copy(c, k) == gltfPrimary[c][Len(primary[c]) + k]

EmptyKeysStayEmpty ==
  /\ \A c \in Collections \ {"scenes"} : \A k \in 1..Len(lod_[c]) :
       \A f \in ForeignKeys(c) : lod_[c][k][f] = << >> => Copy(c, k)[f] = << >>
  /\ \A k \in 1..Len(lod_.meshes) : \A j \in 1..Len(lod_.meshes[k].primitives) :
       \A f \in PrimitiveAccessorFields \cup {"materialId"} :
         lod_.meshes[k].primitives[j][f] = << >>
           => Copy("meshes", k).primitives[j][f] = << >>

(* C2: after any sequence of successful merge steps (and after the flush    *)
(* and the screen-coverage pass) every non-empty foreign key and every      *)
(* image or texture index inside an MSFT_texture_dds or packing payload     *)
(* names an existing element of its target collection, and a foreign key    *)
(* that was empty in the candidate is empty in its merged copy.             *)
C2_ReferencesResolve ==
  /\ pc \in {"fold", "flushed", "done"} => ValidRefs(gltfPrimary)
  /\ pc = "done" => ValidRefs(merged)
  /\ Succeeded => EmptyKeysStayEmpty

C2_Witness ==
  /\ Succeeded
  /\ Len(docs) = 3
  /\ Len(gltfPrimary.textures) >= 5
  /\ \E k \in 1..Len(lod_.nodes) : lod_.nodes[k].meshId # << >>
  /\ \E k \in 1..Len(lod_.textures) : lod_.textures[k].samplerId = << >>
  /\ \E k \in 1..Len(lod_.materials) :
       /\ EXTENSION_MSFT_PACKING_ORM \in DOMAIN lod_.materials[k].extensions
       /\ GetMember(GetMember(Copy("materials", k).extensions[EXTENSION_MSFT_PACKING_ORM],
                              "normalTexture"), "index").i
            = 1 + Len(primary.textures)

-----------------------------------------------------------------------------
(* C3 (as stated): in every successful merge step the chain of each primary *)
(* node that is a scene root grows by exactly 1, also when the node roots   *)
(* several scenes, and every other chain keeps its length.                   *)
C3_RootChainsGrowByOne ==
  Succeeded =>
    \A id \in DOMAIN lods :
      Len(lods[id]) = Len(primaryLods[id]) + (IF IsRoot(primary, id) THEN 1 ELSE 0)

-----------------------------------------------------------------------------
(* The entries one step appends to the chain of primary node id: for every  *)
(* (scene, root) position that holds id, in scene-major order, the          *)
(* candidate's root at that position plus the primary's node count.          *)
AppendedEntries(id) ==
  LET here == SelectSeq(RootPositions(primary.scenes, 1, 1),
                LAMBDA at : primary.scenes[at.sceneIdx].nodes[at.rootNodeIdx] = id)
  IN MapSeq(here, LAMBDA at :
       to_string(stoi(lod_.scenes[at.sceneIdx].nodes[at.rootNodeIdx])
                 + Len(primary.nodes)))

(* C10: in a successful merge step the identifier appended for the root at  *)
(* (s, r) is the candidate's root identifier at (s, r) plus the node count  *)
(* of the accumulated document before the step; it is appended at the back  *)
(* of the chain, and it names the merged copy of that candidate root.        *)
C10_AppendedIdIsOffsetCandidateRoot ==
  Succeeded =>
    /\ DOMAIN lods = DOMAIN primaryLods
    /\ \A id \in DOMAIN lods : lods[id] = primaryLods[id] \o AppendedEntries(id)
    /\ \A s \in 1..Len(primary.scenes) : \A r \in 1..Len(primary.scenes[s].nodes) :
         LET entry == to_string(stoi(lod_.scenes[s].nodes[r]) + Len(primary.nodes))
         IN /\ Has(gltfPrimary.nodes, entry)
            /\ Position(gltfPrimary.nodes, entry)
                 = Len(primary.nodes) + Position(lod_.nodes, lod_.scenes[s].nodes[r])

C10_Witness ==
  /\ Succeeded
  /\ Len(docs) = 3
  /\ Len(primary.scenes) = 1 /\ Len(primary.scenes[1].nodes) = 2
  /\ lods[to_string(1)] = <<to_string(3), to_string(5)>>

-----------------------------------------------------------------------------
(* The document MergeDocumentsAsLODs(docs) returned *)
Returned == IF pc = "done" THEN merged ELSE gltfPrimary

(* C4 (as stated): after mergeAll returns, every node whose registry chain  *)
(* is non-empty carries the MSFT_lod payload {"ids":[...]} listing the      *)
(* positional indices of its whole chain in chain order, also when the      *)
(* primary already carried MSFT_lod on that node; a node with an empty      *)
(* chain carries no MSFT_lod.                                                *)
C4_FlushedChainsAreWritten ==
  pc \in {"flushed", "done"} =>
    \A id \in DOMAIN lods :
      LET node == Get(Returned.nodes, id)
      IN IF lods[id] # << >>
         THEN /\ EXTENSION_MSFT_LOD \in DOMAIN node.extensions
              /\ node.extensions[EXTENSION_MSFT_LOD] =
                   JObj(<<Member(MSFT_LOD_IDS_KEY,
                          JArr(MapSeq(lods[id], LAMBDA lodId :
                                 JInt(Position(Returned.nodes, lodId) - 1))))>>)
         ELSE EXTENSION_MSFT_LOD \notin DOMAIN node.extensions

-----------------------------------------------------------------------------
NoLodData(doc) ==
  \A k \in 1..Len(doc.nodes) : EXTENSION_MSFT_LOD \notin DOMAIN doc.nodes[k].extensions

(* C5 (as stated): for N >= 1 documents without LOD data that merge,        *)
(* countLODLevels of the result and of the registry of the result is N - 1. *)
C5_LevelsAreDocsMinusOne ==
  (pc \in {"flushed", "done"} /\ \A k \in 1..Len(docs) : NoLodData(docs[k])) =>
    NumberOfNodeLODLevels(Returned, ParseDocumentNodeLODs(Returned)) = Len(docs) - 1

-----------------------------------------------------------------------------
(* C6: when a merge step fails with the topology mismatch, the caller's      *)
(* document is exactly the one it passed in: every collection, every         *)
(* identifier and extension, and extensionsUsed.                             *)
C6_FailedStepLeavesPrimary ==
  (JustStepped /\ thrown = "runtime_error") => gltfPrimary = primary

C6_Witness ==
  /\ JustStepped
  /\ thrown = "runtime_error"
  /\ Len(docs) = 3
  /\ Len(primary.scenes) = 1 /\ Len(lod_.scenes) = 1
  /\ Len(primary.scenes[1].nodes) = 1 /\ Len(lod_.scenes[1].nodes) = 2
  /\ Len(lod_.buffers) = 2
  /\ EXTENSION_MSFT_LOD \in primary.extensionsUsed

-----------------------------------------------------------------------------
(* C7 (as stated): with a non-empty screenCoverage, in the result every     *)
(* scene root has that sequence under MSFT_screencoverage in its extras and *)
(* every other member that was in its extras is still there unchanged; the  *)
(* extras of the other nodes are unchanged.                                  *)
C7_CoverageOnEveryRoot ==
  (pc = "done" /\ screenCoveragePercentages # << >>) =>
    \A k \in 1..Len(merged.nodes) :
      LET before == gltfPrimary.nodes[k].extras
          after == merged.nodes[k].extras
      IN IF IsRoot(merged, merged.nodes[k].id)
         THEN /\ HasMember(after, MSFT_SCREENCOVERAGE_KEY)
              /\ GetMember(after, MSFT_SCREENCOVERAGE_KEY)
                   = JArr(MapSeq(screenCoveragePercentages, JInt))
              /\ \A j \in 1..Len(before.m) :
                   before.m[j].name # MSFT_SCREENCOVERAGE_KEY
                     => /\ HasMember(after, before.m[j].name)
                        /\ GetMember(after, before.m[j].name) = before.m[j].value
         ELSE after = before

-----------------------------------------------------------------------------
AllEmpty(doc) == \A c \in Collections : doc[c] = << >>

(* C8: merging a candidate whose every collection is empty changes no       *)
(* entity count of the primary and the length of no registry chain.          *)
C8_EmptyCandidateChangesNothing ==
  (JustStepped /\ AllEmpty(lod_)) =>
    /\ \A c \in Collections : Len(gltfPrimary[c]) = Len(primary[c])
    /\ DOMAIN lods = DOMAIN primaryLods
    /\ \A id \in DOMAIN lods : Len(lods[id]) = Len(primaryLods[id])

C8_Witness ==
  /\ JustStepped
  /\ AllEmpty(lod_)
  /\ Len(docs) = 3
  /\ Len(primary.nodes) >= 2
  /\ \E id \in DOMAIN primaryLods : primaryLods[id] # << >>

-----------------------------------------------------------------------------
(* The three mismatches the claim names *)
SceneCountDiffers(p, l) == Len(p.scenes) # Len(l.scenes)

RootCountDiffers(p, l) ==
  /\ ~SceneCountDiffers(p, l)
  /\ \E s \in 1..Len(p.scenes) : Len(p.scenes[s].nodes) # Len(l.scenes[s].nodes)

RootSequenceDiffers(p, l) ==
  /\ ~SceneCountDiffers(p, l)
  /\ \E s \in 1..Len(p.scenes) :
       /\ Len(p.scenes[s].nodes) = Len(l.scenes[s].nodes)
       /\ Len(p.scenes[s].nodes) > 1
       /\ \E r \in 1..Len(p.scenes[s].nodes) : p.scenes[s].nodes[r] # l.scenes[s].nodes[r]

Mismatch(p, l) ==
  SceneCountDiffers(p, l) \/ RootCountDiffers(p, l) \/ RootSequenceDiffers(p, l)

HasRootlessScene(p) == \E s \in 1..Len(p.scenes) : p.scenes[s].nodes = << >>

====
